---- MODULE Spec2Model ----
(***************************************************************************)
(* Model of the shrinkpdf Ghostscript worker (gs.worker.ts), of the calls   *)
(* of compressWithGS on the main thread and of the file state of the page   *)
(* that makes them (lib/gs-client.ts).                                      *)
(*                                                                          *)
(* The worker is one single-threaded event loop.  An action is one          *)
(* synchronous block of its code: the onmessage handler, handleJob up to    *)
(* its await of createFreshGS, the continuation after that await up to the  *)
(* entry of gs.callMain, one print/printErr callback, and the return (or    *)
(* throw) of gs.callMain with everything that follows it up to the          *)
(* settlement of the job's link of the promise chain.                       *)
(***************************************************************************)
EXTENDS Integers, Sequences, FiniteSets

\* ---- bounds of the model ----
MaxJobs == 2
MaxEmitted == 2
MaxErrorEvents == 1

\* ---- values ----
\* JavaScript null (activeJobId, totalPages, GSProgress.total)
Null == 0 - 1
\* Number("<digit string too long for a double>") is Infinity
Infinity == 0 - 2
\* detectPdfVersion's null (no match)
NoMatch == "null"

Min(a, b) == IF a < b THEN a ELSE b
Max(a, b) == IF a > b THEN a ELSE b

\* ---- PDF input bytes ----
\* A byte buffer is a sequence of segments: n bytes of text in which the
\* pattern %PDF-<digit>.<digit> does not occur, or the 8 bytes of one
\* occurrence of the pattern, "%PDF-" followed by the version v.
Junk(n) == [k |-> "junk", n |-> n, v |-> ""]
Marker(v) == [k |-> "marker", n |-> 8, v |-> v]

RECURSIVE ByteLength(_)
ByteLength(segs) ==
  IF segs = <<>> THEN 0 ELSE Head(segs).n + ByteLength(Tail(segs))

\* offset of the first byte of segment i
Offset(segs, i) == ByteLength(SubSeq(segs, 1, i - 1))

HeadLimit == 1024
DefaultPdfVersion == "1.5"

\* a plausible slip: the whole file is searched
detectPdfVersionWholeFile(segs) ==
  LET m == {i \in DOMAIN segs : segs[i].k = "marker"}
  IN IF m = {} THEN NoMatch
     ELSE segs[CHOOSE i \in m : \A j \in m : i <= j].v

\* detectPdfVersion: the first match that lies within the first
\* min(1024, length) bytes, or null
detectPdfVersion(segs) ==
  LET head == Min(HeadLimit, ByteLength(segs))
      m == {i \in DOMAIN segs :
              segs[i].k = "marker" /\ Offset(segs, i) + segs[i].n <= head}
  IN IF m = {} THEN NoMatch
     ELSE segs[CHOOSE i \in m : \A j \in m : i <= j].v

\* the documents a caller submits
DocV17 == <<Marker("1.7"), Junk(2)>>
DocLate == <<Junk(1017), Marker("1.4")>>
Docs == {DocV17, DocLate}

\* ---- engine log text ----
\* The text handed to print/printErr is a sequence of lines.  A line is
\* "Processing pages <a> through <b>." (possibly inside other text), a line
\* made of "Page <n>" alone, or other text matching neither pattern.
PagesLine(a, b) == [k |-> "pages", a |-> a, b |-> b]
PageLine(n) == [k |-> "page", a |-> n, b |-> 0]
OtherLine == [k |-> "other", a |-> 0, b |-> 0]

Chunks ==
  { <<PageLine(1)>>, <<PageLine(2)>>, <<PageLine(Infinity)>>,
    <<PagesLine(1, 2)>>, <<PagesLine(2, 1)>>,
    <<OtherLine>>, <<PageLine(1), PageLine(2)>>,
    <<OtherLine, PagesLine(1, 2)>> }

\* no print callback: the last step of the worker was something else
NoPrint == [job |-> Null, text |-> <<>>,
            before |-> [activeJobId |-> Null, totalPages |-> Null, currentPage |-> 0]]

\* ---- worker state ----
VARIABLES
  inbox,        \* compress requests posted to the worker, not yet dispatched
  queue,        \* the links of the promise chain `queue`, in creation order
  activeJobId,  \* module variable activeJobId
  totalPages,   \* module variable totalPages
  currentPage,  \* module variable currentPage
  posted,       \* the messages the worker has posted, in order
  lastPrint,    \* the print callback that was the last step, or NoPrint
  nEmitted,     \* number of progress messages posted by parseGsLine
  nSubmitted,   \* number of compressWithGS calls made
  workerHolds,  \* the buffers reachable from the worker's code
  calls,        \* the compressWithGS calls, by jobId: promise and listeners
  delivered,    \* number of messages of `posted` dispatched on the main thread
  ui,           \* fileState of the page: status and progress
  callerHolds,  \* the buffers reachable from the main thread's code
  errorEvents   \* number of error events of the worker dispatched so far

clientVars == <<calls, delivered, ui, callerHolds, errorEvents>>

vars == <<inbox, queue, activeJobId, totalPages, currentPage, posted,
          lastPrint, nEmitted, nSubmitted, workerHolds, calls, delivered, ui,
          callerHolds, errorEvents>>

progressState == [activeJobId |-> activeJobId, totalPages |-> totalPages,
                  currentPage |-> currentPage]

\* ---- helpers of the worker ----
postStatus(jobId, stage, message) ==
  [type |-> "status", jobId |-> jobId, stage |-> stage, message |-> message]

postProgress(jobId, percent, current, total) ==
  [type |-> "progress", jobId |-> jobId, percent |-> percent,
   current |-> current, total |-> total]

\* a plausible slip: the cap at 100 instead of 99
ClampPercent100(raw) == Min(100, Max(0, raw))

\* emitProgress line 48
ClampPercent(raw) == Min(99, Max(0, raw))

\* The percentages k for which the double product (k / 100) * 100 falls just
\* short of k: 0.29 * 100 is 28.999999999999996, and so for 0.57 and 0.58.
DoubleShort == {29, 57, 58}

\* a plausible slip: the percentage of the range start..end instead of 1..end
FloorPercentOffByOne(cur, tot) == ((cur - 1) * 100) \div tot

\* emitProgress line 47: Math.floor((currentPage / totalPages) * 100) in
\* double arithmetic.  The quotient is rounded before it is multiplied, so
\* the result is one below the exact percentage when that is a whole number
\* in DoubleShort, and the exact floor otherwise (below the cap of 99).
FloorPercent(cur, tot) ==
  LET exact == (cur * 100) \div tot
  IN IF (cur * 100) % tot = 0 /\ exact \in DoubleShort THEN exact - 1 ELSE exact

\* a plausible slip: the percent is kept from falling below the percent of
\* the job's previous progress message
emitProgressMonotonic(jobId, s) ==
  LET percent ==
        IF s.totalPages # Null /\ s.totalPages # 0 /\ s.totalPages > 0
        THEN ClampPercent(FloorPercent(s.currentPage, s.totalPages))
        ELSE 0
      earlier == {k \in DOMAIN posted :
                    posted[k].type = "progress" /\ posted[k].jobId = jobId}
      floor == IF earlier = {} THEN 0
               ELSE posted[CHOOSE k \in earlier : \A l \in earlier : l <= k].percent
  IN postProgress(jobId, Max(floor, percent), s.currentPage, s.totalPages)

\* emitProgress, on the progress state s
emitProgress(jobId, s) ==
  LET percent ==
        IF s.totalPages # Null /\ s.totalPages # 0 /\ s.totalPages > 0
        THEN ClampPercent(FloorPercent(s.currentPage, s.totalPages))
        ELSE 0
  IN postProgress(jobId, percent, s.currentPage, s.totalPages)

IsFinite(x) == x # Infinity

\* line.match(/Processing pages\s+(\d+)\s+through\s+(\d+)\./i): the leftmost
\* occurrence in the text, or 0
MatchTotal(text) ==
  LET m == {i \in DOMAIN text : text[i].k = "pages"}
  IN IF m = {} THEN 0 ELSE CHOOSE i \in m : \A j \in m : i <= j

\* line.match(/^\s*Page\s+(\d+)\s*$/i): ^ and $ are the ends of the whole
\* text (no m flag), so the text is one "Page <n>" line and nothing else
MatchPage(text) ==
  IF Len(text) = 1 /\ text[1].k = "page" THEN 1 ELSE 0

\* a plausible slip: any other page number is taken, also a smaller one
PageAdvancesAny(p, cur) == IsFinite(p) /\ p # cur

\* parseGsLine line 78
PageAdvances(p, cur) == IsFinite(p) /\ p > cur

\* a plausible slip: "Page 1" resets the total also when it is known
ProvisionalTotalAlways(tot, p) == IF p = 1 THEN 1 ELSE tot

\* parseGsLine line 80: the provisional total of a first "Page 1"
ProvisionalTotal(tot, p) == IF tot = Null /\ p = 1 THEN 1 ELSE tot

\* a plausible slip: the guard on the active job left out
AlwaysActive(s) == FALSE

\* parseGsLine line 62: if (!activeJobId) return
NoActiveJob(s) == s.activeJobId = Null

\* parseGsLine on the progress state s: the new state and the messages posted
parseGsLine(text, s) ==
  IF NoActiveJob(s) THEN [s |-> s, out |-> <<>>]
  ELSE IF MatchTotal(text) # 0
  THEN LET start == text[MatchTotal(text)].a
           end == text[MatchTotal(text)].b
       IN IF IsFinite(start) /\ IsFinite(end) /\ end >= start
          THEN LET t == [s EXCEPT !.totalPages = end - start + 1]
               IN [s |-> t, out |-> <<emitProgress(t.activeJobId, t)>>]
          ELSE [s |-> s, out |-> <<>>]
  ELSE IF MatchPage(text) # 0
  THEN LET p == text[MatchPage(text)].a
       IN IF PageAdvances(p, s.currentPage)
          THEN LET t == [s EXCEPT
                          !.currentPage = p,
                          !.totalPages = ProvisionalTotal(s.totalPages, p)]
               IN [s |-> t, out |-> <<emitProgress(t.activeJobId, t)>>]
          ELSE [s |-> s, out |-> <<>>]
  ELSE [s |-> s, out |-> <<>>]

\* ---- options and engine arguments ----
\* A numeric option is absent (undefined), NaN, an infinity, or a finite
\* number, held in tenths (150 dpi is 1500, a threshold of 1.3 is 13).
Absent == [k |-> "absent", v |-> 0]
NaN == [k |-> "nan", v |-> 0]
Infinite == [k |-> "inf", v |-> 0]
Num(tenths) == [k |-> "num", v |-> tenths]

\* Number.isFinite
NumberIsFinite(x) == x.k = "num"

\* optionsFromLevel
optionsFromLevel(level) ==
  IF level = "low"
  THEN [grayscale |-> "false", resolutionDpi |-> Num(2500),
        threshold |-> Num(15), pdfSettings |-> "printer"]
  ELSE IF level = "high"
  THEN [grayscale |-> "false", resolutionDpi |-> Num(960),
        threshold |-> Num(12), pdfSettings |-> "screen"]
  ELSE [grayscale |-> "false", resolutionDpi |-> Num(1500),
        threshold |-> Num(13), pdfSettings |-> "ebook"]

MediumOptions == optionsFromLevel("medium")

\* a plausible slip: the default applied, the floor of 1 forgotten
ResolutionNoFloor(options) ==
  IF NumberIsFinite(options.resolutionDpi) THEN options.resolutionDpi.v
  ELSE 720

\* shrinkPdfLikeScript line 112, in tenths
Resolution(options) ==
  IF NumberIsFinite(options.resolutionDpi)
  THEN Max(10, options.resolutionDpi.v)
  ELSE 720

\* shrinkPdfLikeScript line 113, in tenths
Threshold(options) ==
  IF NumberIsFinite(options.threshold) THEN Max(1, options.threshold.v)
  ELSE 15

\* a plausible slip: grayscale unless it was switched off
GrayscaleDefaultTrue(options) ==
  IF options.grayscale = "absent" THEN "true" ELSE options.grayscale

\* shrinkPdfLikeScript line 111: `??` replaces an absent value
Grayscale(options) ==
  IF options.grayscale = "absent" THEN "false" ELSE options.grayscale

\* shrinkPdfLikeScript line 114
PdfSettings(options) ==
  IF options.pdfSettings = "absent" THEN "ebook" ELSE options.pdfSettings

\* An argument of the engine: a fixed text, or a prefix and the value put
\* after it by the template string (a text, or a number in tenths).
Flag(name) == [name |-> name, str |-> "", num |-> 0]
StrArg(name, str) == [name |-> name, str |-> str, num |-> 0]
NumArg(name, num) == [name |-> name, str |-> "", num |-> num]

InPath == "/in.pdf"
OutPath == "/out.pdf"

\* shrinkPdfLikeScript line 146-152
GrayArgs(grayscale) ==
  IF grayscale = "true"
  THEN << Flag("-sProcessColorModel=DeviceGray"),
          Flag("-sColorConversionStrategy=Gray"),
          Flag("-dOverrideICC") >>
  ELSE <<>>

\* shrinkPdfLikeScript line 111-154: the argument list given to gs.callMain
EngineArgs(inputPdf, options) ==
  LET res == Resolution(options)
      threshold == Threshold(options)
      detected == detectPdfVersion(inputPdf.segs)
      pdfVersion == IF detected = NoMatch THEN DefaultPdfVersion ELSE detected
  IN << Flag("-dNOPAUSE"),
        Flag("-dBATCH"),
        Flag("-dSAFER"),
        Flag("-sDEVICE=pdfwrite"),
        StrArg("-dCompatibilityLevel=", pdfVersion),
        StrArg("-dPDFSETTINGS=/", PdfSettings(options)),
        Flag("-dEmbedAllFonts=true"),
        Flag("-dSubsetFonts=true"),
        Flag("-dAutoRotatePages=/None"),
        Flag("-dColorImageDownsampleType=/Bicubic"),
        NumArg("-dColorImageResolution=", res),
        NumArg("-dColorImageDownsampleThreshold=", threshold),
        Flag("-dGrayImageDownsampleType=/Bicubic"),
        NumArg("-dGrayImageResolution=", res),
        NumArg("-dGrayImageDownsampleThreshold=", threshold),
        Flag("-dMonoImageDownsampleType=/Subsample"),
        NumArg("-dMonoImageResolution=", res),
        NumArg("-dMonoImageDownsampleThreshold=", threshold),
        Flag("-dPreserveAnnots=false"),
        StrArg("-sOutputFile=", OutPath) >>
     \o GrayArgs(Grayscale(options))
     \o << StrArg("", InPath) >>

\* ---- buffers and their transfer ----
\* a plausible slip: postMessage without its transfer list, the sender keeps
\* the buffer it sent
KeptBySender(held, transfer) == held

\* postMessage(message, transfer): the buffers of the transfer list are
\* detached from the sender
Detach(held, transfer) == held \ transfer

\* ---- the job runner ----
\* A buffer: who allocated it, for which job, and its bytes
InputBuffer(jobId, doc) == [kind |-> "input", job |-> jobId, segs |-> doc]
EngineOutput(jobId, len) == [kind |-> "engine", job |-> jobId, segs |-> <<Junk(len)>>]

\* the lengths of /out.pdf the engine may leave for an input of length n
OutLengths(n) == {n - 1, n, n + 1}

\* a plausible slip: an output of equal length falls back too
UseOriginalGeq(outLen, inLen) == outLen >= inLen

\* shrinkPdfLikeScript line 160
UseOriginal(outLen, inLen) == outLen > inLen

\* shrinkPdfLikeScript after gs.callMain has returned and /out.pdf was read
\* into `out`: the fallback policy and the version reported
shrinkPdfLikeScript(inputPdf, out) ==
  LET detected == detectPdfVersion(inputPdf.segs)
      pdfVersion == IF detected = NoMatch THEN DefaultPdfVersion ELSE detected
  IN IF UseOriginal(ByteLength(out.segs), ByteLength(inputPdf.segs))
     THEN [out |-> inputPdf, usedOriginal |-> TRUE, pdfVersionUsed |-> pdfVersion]
     ELSE [out |-> out, usedOriginal |-> FALSE, pdfVersionUsed |-> pdfVersion]

\* a plausible slip: the page total starts as 0 instead of null
InitProgressZero(jobId) ==
  [activeJobId |-> jobId, totalPages |-> 0, currentPage |-> 0]

\* handleJob, line 176-178: the progress state a job starts running with
InitProgress(jobId) ==
  [activeJobId |-> jobId, totalPages |-> Null, currentPage |-> 0]

\* a plausible slip: the reset at the end of the try block, not in a finally
ResetOnSuccessOnly(s, ok) ==
  IF ok THEN [activeJobId |-> Null, totalPages |-> Null, currentPage |-> 0]
  ELSE s

\* handleJob, the finally block: the progress state the job leaves, whether
\* the try block completed (ok) or threw
FinallyProgress(s, ok) ==
  [activeJobId |-> Null, totalPages |-> Null, currentPage |-> 0]

\* a plausible slip: the final progress reports currentPage also when the
\* total is known
DoneMessagesCurrentPage(jobId, s, r) ==
  << postProgress(jobId, 100, s.currentPage, s.totalPages),
     postStatus(jobId, "done",
                IF r.usedOriginal THEN "Output larger; returned original."
                ELSE "Done."),
     [type |-> "result", jobId |-> jobId, outBuffer |-> r.out,
      usedOriginal |-> r.usedOriginal, pdfVersionUsed |-> r.pdfVersionUsed] >>

\* a plausible slip: the result posted before the final progress and status
DoneMessagesResultFirst(jobId, s, r) ==
  << [type |-> "result", jobId |-> jobId, outBuffer |-> r.out,
      usedOriginal |-> r.usedOriginal, pdfVersionUsed |-> r.pdfVersionUsed],
     postProgress(jobId, 100,
                  IF s.totalPages # Null THEN s.totalPages ELSE s.currentPage,
                  s.totalPages),
     postStatus(jobId, "done",
                IF r.usedOriginal THEN "Output larger; returned original."
                ELSE "Done.") >>

\* the messages handleJob posts after shrinkPdfLikeScript returned r
DoneMessages(jobId, s, r) ==
  << postProgress(jobId, 100,
                  IF s.totalPages # Null THEN s.totalPages ELSE s.currentPage,
                  s.totalPages),
     postStatus(jobId, "done",
                IF r.usedOriginal THEN "Output larger; returned original."
                ELSE "Done."),
     [type |-> "result", jobId |-> jobId, outBuffer |-> r.out,
      usedOriginal |-> r.usedOriginal, pdfVersionUsed |-> r.pdfVersionUsed] >>

\* a plausible slip: the handler reads the request of the latest onmessage
\* (a variable shared by the handlers) instead of its own closure's
CatchJobIdLatest(i) == queue[Len(queue)].msg.jobId

\* the catch handler of link i, line 210: msg.jobId of its own closure
CatchJobId(i) == queue[i].msg.jobId

\* the catch handler of the chain
ErrorMessage(jobId, message) ==
  [type |-> "error", jobId |-> jobId, error |-> message]

\* ---- the promise chain ----
\* A link is the promise queue.then(() => handleJob(msg)).catch(...) created
\* by one onmessage.  st: "pending" (the then-callback has not run),
\* "loading" (handleJob awaits createFreshGS), "running" (inside gs.callMain),
\* "resolved" (handleJob returned), "caught" (handleJob threw; the catch
\* handler posted the error and the link resolved).  gs: the engine instance
\* of handleJob (0 before createFreshGS was called).  args: the arguments
\* gs.callMain was called with (empty before the call).
Settled(st) == st \in {"resolved", "caught"}

\* a plausible slip: handleJob(msg) called at once, not chained on `queue`
NotChained(i) == TRUE

\* a plausible slip: no catch, so a rejected link rejects every later link
PrevResolved(i) == IF i = 1 THEN TRUE ELSE queue[i - 1].st = "resolved"

\* the promise a link was chained on has settled: Promise.resolve() for the
\* first link, otherwise the link created by the previous onmessage
PrevSettled(i) == IF i = 1 THEN TRUE ELSE Settled(queue[i - 1].st)

\* the engine instances made so far, numbered in the order of the calls of
\* createGS
Instances == {queue[i].gs : i \in DOMAIN queue} \ {0}

\* a plausible slip: one engine instance made on first use and kept
createCachedGS(made) == 1

\* createFreshGS: every call of createGS makes a new instance
createFreshGS(made) == Cardinality(made) + 1

\* synchronous code of the worker is executing (gs.callMain does not yield)
Busy == \E i \in DOMAIN queue : queue[i].st = "running"

\* a then-callback is ready to run as a microtask
Startable(i) == queue[i].st = "pending" /\ PrevSettled(i)

\* the byte length of the input of link i
InputLength(i) == ByteLength(queue[i].msg.pdfBuffer.segs)

SetProgress(s) ==
  /\ activeJobId' = s.activeJobId
  /\ totalPages' = s.totalPages
  /\ currentPage' = s.currentPage

Post(msgs) == posted' = posted \o msgs

\* ---- the calls of compressWithGS ----
\* A call: its promise ("pending", "resolved", "rejected"), whether its
\* message and error listeners are registered, the stage and the percent its
\* onStatus and onProgress callbacks were last invoked with, whether its
\* message listener has returned at the jobId guard, and whether the
\* callbacks are those of handleCompress (fromUI).
NewCall(fromUI) ==
  [promise |-> "pending", listening |-> TRUE, stage |-> "", percent |-> Null,
   ignored |-> FALSE, fromUI |-> fromUI]

\* a plausible slip: the guard on the jobId left out
JobMatchesAny(data, jobId) == TRUE

\* compressWithGS line 24: data?.jobId !== jobId returns
JobMatches(data, jobId) == data.jobId = jobId

\* the onMessage listener of the call c of jobId, for the event data
onMessage(c, jobId, data) ==
  IF ~c.listening THEN c
  ELSE IF ~JobMatches(data, jobId) THEN [c EXCEPT !.ignored = TRUE]
  ELSE IF data.type = "status" THEN [c EXCEPT !.stage = data.stage]
  ELSE IF data.type = "progress" THEN [c EXCEPT !.percent = data.percent]
  ELSE [c EXCEPT !.listening = FALSE,
                 !.promise = IF c.promise # "pending" THEN c.promise
                             ELSE IF data.type = "result" THEN "resolved"
                             ELSE IF data.type = "error" THEN "rejected"
                             ELSE c.promise]

\* a plausible slip: the promise rejected, the listeners left registered
onErrorNoCleanup(c) ==
  IF ~c.listening THEN c
  ELSE [c EXCEPT !.promise = IF c.promise = "pending" THEN "rejected"
                             ELSE c.promise]

\* a plausible slip: the listeners removed, the promise left pending
onErrorCleanupOnly(c) ==
  IF ~c.listening THEN c ELSE [c EXCEPT !.listening = FALSE]

\* compressWithGS line 53-56: the onError listener of the call c
onError(c) ==
  IF ~c.listening THEN c
  ELSE [c EXCEPT !.listening = FALSE,
                 !.promise = IF c.promise = "pending" THEN "rejected"
                             ELSE c.promise]

\* ---- the file state of the page ----
NoFile == [status |-> "null", progress |-> 0]

clamp(n, min, max) == Max(min, Min(max, n))

\* a plausible slip: the latest percent shown as it comes
UIProgressLatest(prev, percent) ==
  IF prev.status # "compressing" THEN prev
  ELSE [prev EXCEPT !.progress = clamp(percent, 0, 100)]

\* handleCompress, the onProgress callback; the percent of the worker is a
\* whole number, which Math.round leaves as it is
UIProgress(prev, percent) ==
  IF prev.status # "compressing" THEN prev
  ELSE [prev EXCEPT !.progress = Max(prev.progress, clamp(percent, 0, 100))]

\* what the listener of the call c of jobId does to the file state for the
\* event data: the callbacks of handleCompress, and its continuation after
\* the promise has settled
CallOnUI(prev, c, jobId, data) ==
  IF ~c.fromUI \/ ~c.listening \/ ~JobMatches(data, jobId) THEN prev
  ELSE IF data.type = "progress" THEN UIProgress(prev, data.percent)
  ELSE IF prev.status = "null" THEN prev
  ELSE IF data.type = "result" THEN [status |-> "complete", progress |-> 100]
  ELSE IF data.type = "error" THEN [status |-> "error", progress |-> 0]
  ELSE prev

\* the listeners run in the order in which they were registered
RECURSIVE ListenersOnUI(_, _, _)
ListenersOnUI(prev, j, data) ==
  IF j > Len(calls) THEN prev
  ELSE ListenersOnUI(CallOnUI(prev, calls[j], j, data), j + 1, data)

\* ---- actions ----
\* compressWithGS: a new jobId, the listeners registered, the request posted
\* to the shared worker with the input buffer in the transfer list
Compress(doc, options, fromUI) ==
  /\ nSubmitted < MaxJobs
  /\ nSubmitted' = nSubmitted + 1
  /\ LET jobId == nSubmitted + 1
         pdf == InputBuffer(jobId, doc)
     IN /\ calls' = Append(calls, NewCall(fromUI))
        /\ inbox' = Append(inbox, [type |-> "compress", jobId |-> jobId,
                                   pdfBuffer |-> pdf, options |-> options])
        /\ callerHolds' = Detach(callerHolds \cup {pdf}, {pdf})
  /\ UNCHANGED <<queue, activeJobId, totalPages, currentPage, posted, nEmitted,
                 workerHolds, delivered, errorEvents>>
  /\ lastPrint' = NoPrint

\* a call of compressWithGS made by other code than the page
SubmitWith(doc, options) == Compress(doc, options, FALSE) /\ UNCHANGED ui

Submit(doc) == SubmitWith(doc, MediumOptions)

\* onDrop: shown while there is no file
OnDrop ==
  /\ ui.status = "null"
  /\ ui' = [status |-> "pending", progress |-> 0]
  /\ UNCHANGED <<inbox, queue, activeJobId, totalPages, currentPage, posted,
                 nEmitted, nSubmitted, workerHolds, calls, delivered, callerHolds,
                 errorEvents>>
  /\ lastPrint' = NoPrint

\* handleReset: its button is shown unless the status is "compressing"
HandleReset ==
  /\ ui.status \in {"pending", "complete", "error"}
  /\ ui' = NoFile
  /\ UNCHANGED <<inbox, queue, activeJobId, totalPages, currentPage, posted,
                 nEmitted, nSubmitted, workerHolds, calls, delivered, callerHolds,
                 errorEvents>>
  /\ lastPrint' = NoPrint

\* handleCompress up to the return of compressWithGS; doc is the content of
\* fileState.file
HandleCompress(doc, level) ==
  /\ ui.status = "pending"
  /\ ui' = [status |-> "compressing", progress |-> 0]
  /\ Compress(doc, optionsFromLevel(level), TRUE)

\* the main thread dispatches the next message of the worker to the message
\* listeners; a promise settled by a listener runs its continuation
Deliver ==
  /\ delivered < Len(posted)
  /\ delivered' = delivered + 1
  /\ LET data == posted[delivered + 1]
         received == \E j \in DOMAIN calls :
                       calls[j].listening /\ JobMatches(data, j)
     IN /\ calls' = [j \in DOMAIN calls |-> onMessage(calls[j], j, data)]
        /\ ui' = ListenersOnUI(ui, 1, data)
        /\ callerHolds' = IF data.type = "result" /\ received
                          THEN callerHolds \cup {data.outBuffer}
                          ELSE callerHolds
  /\ UNCHANGED <<inbox, queue, activeJobId, totalPages, currentPage, posted,
                 nEmitted, nSubmitted, workerHolds, errorEvents>>
  /\ lastPrint' = NoPrint

\* the worker raises an error event (an exception no code of the worker
\* has caught): the main thread dispatches it to the error listeners; the
\* catch block of handleCompress runs for a call of the page
WorkerError ==
  /\ errorEvents < MaxErrorEvents
  /\ errorEvents' = errorEvents + 1
  /\ calls' = [j \in DOMAIN calls |-> onError(calls[j])]
  /\ ui' = IF ui.status # "null" /\
              (\E j \in DOMAIN calls : calls[j].fromUI /\ calls[j].listening)
           THEN [status |-> "error", progress |-> 0]
           ELSE ui
  /\ UNCHANGED <<inbox, queue, activeJobId, totalPages, currentPage, posted,
                 nEmitted, nSubmitted, workerHolds, delivered, callerHolds>>
  /\ lastPrint' = NoPrint

\* self.onmessage: a task of the event loop; it runs when no synchronous
\* code and no microtask of the chain is pending
OnMessage ==
  /\ inbox # <<>>
  /\ ~Busy
  /\ \A i \in DOMAIN queue : ~Startable(i)
  /\ LET msg == Head(inbox)
     IN /\ queue' = IF msg.type # "compress" THEN queue
                    ELSE Append(queue, [msg |-> msg, st |-> "pending",
                                        gs |-> 0, args |-> <<>>])
        /\ workerHolds' = workerHolds \cup {msg.pdfBuffer}
  /\ inbox' = Tail(inbox)
  /\ UNCHANGED <<activeJobId, totalPages, currentPage, posted, nEmitted, nSubmitted>>
  /\ UNCHANGED clientVars
  /\ lastPrint' = NoPrint

\* handleJob up to `await createFreshGS()`
StartJob(i) ==
  /\ Startable(i)
  /\ ~Busy
  /\ queue' = [queue EXCEPT ![i].st = "loading",
                            ![i].gs = createFreshGS(Instances)]
  /\ Post(<<postStatus(queue[i].msg.jobId, "loading", "Loading Ghostscript WASM...")>>)
  /\ UNCHANGED <<inbox, activeJobId, totalPages, currentPage, nEmitted, nSubmitted>>
  /\ UNCHANGED <<workerHolds, clientVars>>
  /\ lastPrint' = NoPrint

\* createFreshGS rejects: handleJob throws before its try block, the catch
\* handler of the chain posts the error
InstantiateFails(i) ==
  /\ queue[i].st = "loading"
  /\ ~Busy
  /\ queue' = [queue EXCEPT ![i].st = "caught"]
  /\ Post(<<ErrorMessage(CatchJobId(i), "instantiate")>>)
  /\ workerHolds' = workerHolds \ {queue[i].msg.pdfBuffer}
  /\ UNCHANGED <<inbox, activeJobId, totalPages, currentPage, nEmitted, nSubmitted>>
  /\ UNCHANGED clientVars
  /\ lastPrint' = NoPrint

\* createFreshGS resolves: handleJob line 173-181, then shrinkPdfLikeScript
\* up to the entry of gs.callMain
InstantiateOk(i) ==
  /\ queue[i].st = "loading"
  /\ ~Busy
  /\ LET jobId == queue[i].msg.jobId
         s == InitProgress(jobId)
     IN /\ SetProgress(s)
        /\ Post(<< postStatus(jobId, "ready", "Ghostscript ready."),
                   emitProgress(jobId, s),
                   postStatus(jobId, "running", "Compressing...") >>)
  /\ queue' = [queue EXCEPT ![i].st = "running",
                            ![i].args = EngineArgs(queue[i].msg.pdfBuffer,
                                                   queue[i].msg.options)]
  /\ UNCHANGED <<inbox, nEmitted, nSubmitted>>
  /\ UNCHANGED <<workerHolds, clientVars>>
  /\ lastPrint' = NoPrint

\* the print / printErr callback of the engine instance of link i, while it
\* is being instantiated or while its callMain executes
OnPrint(i, text) ==
  /\ nEmitted < MaxEmitted
  /\ IF queue[i].st = "loading" THEN ~Busy ELSE queue[i].st = "running"
  /\ LET r == parseGsLine(text, progressState)
     IN /\ SetProgress(r.s)
        /\ Post(r.out)
        /\ nEmitted' = nEmitted + Len(r.out)
  /\ lastPrint' = [job |-> queue[i].msg.jobId, text |-> text,
                   before |-> progressState]
  /\ UNCHANGED <<inbox, queue, nSubmitted, workerHolds>>
  /\ UNCHANGED clientVars

\* the print / printErr callback of the engine instance of link i after its
\* gs.callMain has returned or thrown and the job has ended, while no
\* synchronous code of the worker is executing
OnLatePrint(i, text) ==
  /\ nEmitted < MaxEmitted
  /\ Settled(queue[i].st)
  /\ queue[i].args # <<>>
  /\ ~Busy
  /\ LET r == parseGsLine(text, progressState)
     IN /\ SetProgress(r.s)
        /\ Post(r.out)
        /\ nEmitted' = nEmitted + Len(r.out)
  /\ lastPrint' = [job |-> queue[i].msg.jobId, text |-> text,
                   before |-> progressState]
  /\ UNCHANGED <<inbox, queue, nSubmitted, workerHolds>>
  /\ UNCHANGED clientVars

\* gs.callMain throws (also: gs.FS.writeFile throws before it, when nothing
\* was printed): finally, then the catch handler of the chain
EngineThrows(i) ==
  /\ queue[i].st = "running"
  /\ SetProgress(FinallyProgress(progressState, FALSE))
  /\ Post(<<ErrorMessage(CatchJobId(i), "callMain")>>)
  /\ queue' = [queue EXCEPT ![i].st = "caught"]
  /\ workerHolds' = workerHolds \ {queue[i].msg.pdfBuffer}
  /\ UNCHANGED <<inbox, nEmitted, nSubmitted>>
  /\ UNCHANGED clientVars
  /\ lastPrint' = NoPrint

\* gs.callMain returns, gs.FS.readFile("/out.pdf") throws
OutputUnreadable(i) ==
  /\ queue[i].st = "running"
  /\ SetProgress(FinallyProgress(progressState, FALSE))
  /\ Post(<<ErrorMessage(CatchJobId(i), "readFile")>>)
  /\ queue' = [queue EXCEPT ![i].st = "caught"]
  /\ workerHolds' = workerHolds \ {queue[i].msg.pdfBuffer}
  /\ UNCHANGED <<inbox, nEmitted, nSubmitted>>
  /\ UNCHANGED clientVars
  /\ lastPrint' = NoPrint

\* gs.callMain returns, /out.pdf is read: handleJob line 184-201
JobSucceeds(i, outLen) ==
  /\ queue[i].st = "running"
  /\ outLen >= 0
  /\ LET msg == queue[i].msg
         out == EngineOutput(msg.jobId, outLen)
         r == shrinkPdfLikeScript(msg.pdfBuffer, out)
     IN /\ Post(DoneMessages(msg.jobId, progressState, r))
        /\ workerHolds' = Detach(workerHolds \cup {out}, {r.out})
                            \ {msg.pdfBuffer, out}
  /\ SetProgress(FinallyProgress(progressState, TRUE))
  /\ queue' = [queue EXCEPT ![i].st = "resolved"]
  /\ UNCHANGED <<inbox, nEmitted, nSubmitted>>
  /\ UNCHANGED clientVars
  /\ lastPrint' = NoPrint

Init ==
  /\ inbox = <<>>
  /\ queue = <<>>
  /\ activeJobId = Null
  /\ totalPages = Null
  /\ currentPage = 0
  /\ posted = <<>>
  /\ lastPrint = NoPrint
  /\ nEmitted = 0
  /\ nSubmitted = 0
  /\ workerHolds = {}
  /\ calls = <<>>
  /\ delivered = 0
  /\ ui = NoFile
  /\ callerHolds = {}
  /\ errorEvents = 0

Next ==
  \/ \E doc \in Docs : Submit(doc)
  \/ OnMessage
  \/ \E i \in DOMAIN queue : StartJob(i)
  \/ \E i \in DOMAIN queue : InstantiateFails(i)
  \/ \E i \in DOMAIN queue : InstantiateOk(i)
  \/ \E i \in DOMAIN queue, text \in Chunks : OnPrint(i, text)
  \/ \E i \in DOMAIN queue : EngineThrows(i)
  \/ \E i \in DOMAIN queue : OutputUnreadable(i)
  \/ \E i \in DOMAIN queue :
       \E outLen \in OutLengths(ByteLength(queue[i].msg.pdfBuffer.segs)) :
         JobSucceeds(i, outLen)

Spec == Init /\ [][Next]_vars

\* the scheduling of the worker: a dispatched task or microtask runs, and
\* createFreshGS and gs.callMain eventually return or throw
Fairness ==
  /\ WF_vars(OnMessage)
  /\ \A i \in 1..MaxJobs :
       /\ WF_vars(i \in DOMAIN queue /\ StartJob(i))
       /\ WF_vars(i \in DOMAIN queue /\ (InstantiateFails(i) \/ InstantiateOk(i)))
       /\ WF_vars(i \in DOMAIN queue /\
                  (\/ EngineThrows(i)
                   \/ OutputUnreadable(i)
                   \/ \E outLen \in OutLengths(ByteLength(queue[i].msg.pdfBuffer.segs)) :
                        JobSucceeds(i, outLen)))

\* The liveness of the chain does not depend on the bytes of the documents:
\* under LiveSpec the caller submits the documents of Docs in turn.
LiveDoc(j) == IF j % 2 = 1 THEN DocV17 ELSE DocLate

LiveNext ==
  \/ Submit(LiveDoc(nSubmitted + 1))
  \/ OnMessage
  \/ \E i \in DOMAIN queue : StartJob(i)
  \/ \E i \in DOMAIN queue : InstantiateFails(i)
  \/ \E i \in DOMAIN queue : InstantiateOk(i)
  \/ \E i \in DOMAIN queue, text \in Chunks : OnPrint(i, text)
  \/ \E i \in DOMAIN queue : EngineThrows(i)
  \/ \E i \in DOMAIN queue : OutputUnreadable(i)
  \/ \E i \in DOMAIN queue :
       \E outLen \in OutLengths(ByteLength(queue[i].msg.pdfBuffer.segs)) :
         JobSucceeds(i, outLen)

LiveSpec == Init /\ [][LiveNext]_vars /\ Fairness

\* ---- the argument list of one job ----
\* One job, for documents with the version marker at the start, ending on
\* byte 1024, straddling byte 1024, beyond it, twice, or not at all, and for
\* option records with absent, non-finite, negative, zero, small and usual
\* numbers.
VersionDocs ==
  { DocV17, DocLate,
    <<Junk(1016), Marker("1.4")>>,
    <<Junk(1024), Marker("1.4")>>,
    <<Marker("1.3"), Marker("1.6")>>,
    <<Junk(10)>>,
    <<Junk(5), Marker("1.6"), Junk(1020), Marker("1.2")>>,
    <<Junk(1017), Marker("1.4"), Marker("1.6")>> }

OptionInputs ==
  [ grayscale : {"absent", "true", "false"},
    resolutionDpi : {Absent, NaN, Infinite, Num(1500), Num(0), Num(0 - 500),
                     Num(5), Num(10)},
    threshold : {Absent, NaN, Infinite, Num(13), Num(0), Num(0 - 10), Num(1)},
    pdfSettings : {"absent", "screen"} ]

ArgsNext ==
  \/ nSubmitted = 0 /\ \E doc \in VersionDocs, options \in OptionInputs :
                         SubmitWith(doc, options)
  \/ OnMessage
  \/ \E i \in DOMAIN queue : StartJob(i)
  \/ \E i \in DOMAIN queue : InstantiateOk(i)
  \/ \E i \in DOMAIN queue : \E outLen \in OutLengths(InputLength(i)) :
       JobSucceeds(i, outLen)

ArgsSpec == Init /\ [][ArgsNext]_vars

\* ---- the worker and its callers ----
\* Calls of compressWithGS on the shared worker and the dispatch of the
\* worker's messages on the main thread, with log texts that make the
\* percent go down: "Page 1" (99), then the range 1..2 (50).
ClientChunks == { <<PageLine(1)>>, <<PagesLine(1, 2)>> }

ClientNext ==
  \/ Submit(DocV17)
  \/ Deliver
  \/ OnMessage
  \/ \E i \in DOMAIN queue : StartJob(i)
  \/ \E i \in DOMAIN queue : InstantiateOk(i)
  \/ \E i \in DOMAIN queue, text \in ClientChunks : OnPrint(i, text)
  \/ \E i \in DOMAIN queue : EngineThrows(i)
  \/ \E i \in DOMAIN queue : \E outLen \in OutLengths(InputLength(i)) :
       JobSucceeds(i, outLen)

ClientSpec == Init /\ [][ClientNext]_vars

\* ---- error events of the worker ----
\* The calls on the shared worker when the worker raises an error event at
\* any moment.
ErrorNext ==
  \/ Submit(DocV17)
  \/ Deliver
  \/ WorkerError
  \/ OnMessage
  \/ \E i \in DOMAIN queue : StartJob(i)
  \/ \E i \in DOMAIN queue : InstantiateOk(i)
  \/ \E i \in DOMAIN queue : EngineThrows(i)
  \/ \E i \in DOMAIN queue : JobSucceeds(i, InputLength(i))

ErrorSpec == Init /\ [][ErrorNext]_vars

\* ---- the page ----
\* The calls are those of handleCompress: a file is dropped, compressed,
\* and reset when the job has ended.
PageNext ==
  \/ OnDrop
  \/ HandleReset
  \/ HandleCompress(DocV17, "medium")
  \/ Deliver
  \/ OnMessage
  \/ \E i \in DOMAIN queue : StartJob(i)
  \/ \E i \in DOMAIN queue : InstantiateOk(i)
  \/ \E i \in DOMAIN queue, text \in ClientChunks : OnPrint(i, text)
  \/ \E i \in DOMAIN queue : EngineThrows(i)
  \/ \E i \in DOMAIN queue : JobSucceeds(i, InputLength(i))

PageSpec == Init /\ [][PageNext]_vars

\* ---- the messages of the worker ----
\* The worker with every way a job can end, for one document and the log
\* texts "Page 1" and "Processing pages 1 through 2.".
ProtocolNext ==
  \/ Submit(DocV17)
  \/ OnMessage
  \/ \E i \in DOMAIN queue : StartJob(i)
  \/ \E i \in DOMAIN queue : InstantiateFails(i)
  \/ \E i \in DOMAIN queue : InstantiateOk(i)
  \/ \E i \in DOMAIN queue, text \in ClientChunks : OnPrint(i, text)
  \/ \E i \in DOMAIN queue : EngineThrows(i)
  \/ \E i \in DOMAIN queue : OutputUnreadable(i)
  \/ \E i \in DOMAIN queue : \E outLen \in OutLengths(InputLength(i)) :
       JobSucceeds(i, outLen)

ProtocolSpec == Init /\ [][ProtocolNext]_vars

\* ---- log text outside of a job ----
\* The engine instances print also while they are instantiated and after
\* their job has ended.
IdleChunks == { <<PageLine(1)>>, <<PagesLine(1, 2)>>, <<OtherLine>> }

IdleNext ==
  \/ Submit(DocV17)
  \/ OnMessage
  \/ \E i \in DOMAIN queue : StartJob(i)
  \/ \E i \in DOMAIN queue : InstantiateOk(i)
  \/ \E i \in DOMAIN queue, text \in IdleChunks : OnPrint(i, text)
  \/ \E i \in DOMAIN queue, text \in IdleChunks : OnLatePrint(i, text)
  \/ \E i \in DOMAIN queue : EngineThrows(i)
  \/ \E i \in DOMAIN queue : JobSucceeds(i, InputLength(i))

IdleSpec == Init /\ [][IdleNext]_vars

\* ---- the progress inferrer on one job ----
\* One job, and the log texts of a larger document: the page ranges 3..12,
\* 1..100 and 1..2, and the pages 1, 2, 5 and 29.
ParseChunks ==
  { <<PageLine(1)>>, <<PageLine(2)>>, <<PageLine(5)>>, <<PageLine(29)>>,
    <<PageLine(Infinity)>>,
    <<PagesLine(3, 12)>>, <<PagesLine(1, 100)>>, <<PagesLine(1, 2)>>,
    <<PagesLine(2, 1)>>, <<OtherLine>> }

ParseNext ==
  \/ nSubmitted = 0 /\ Submit(DocV17)
  \/ OnMessage
  \/ \E i \in DOMAIN queue : StartJob(i)
  \/ \E i \in DOMAIN queue : InstantiateOk(i)
  \/ \E i \in DOMAIN queue, text \in ParseChunks : OnPrint(i, text)
  \/ \E i \in DOMAIN queue : EngineThrows(i)
  \/ \E i \in DOMAIN queue : JobSucceeds(i, InputLength(i))

ParseSpec == Init /\ [][ParseNext]_vars

\* ---- reading the posted messages ----
IsTerminal(m) == m.type \in {"result", "error"}
IsProgress(m) == m.type = "progress"
JobOf(i) == queue[i].msg.jobId
TerminalsOf(jobId) ==
  {k \in DOMAIN posted : IsTerminal(posted[k]) /\ posted[k].jobId = jobId}
ProgressOf(jobId) ==
  {k \in DOMAIN posted : IsProgress(posted[k]) /\ posted[k].jobId = jobId}
Handled(i) == queue[i].st \in {"loading", "running"}

\* ---- claims ----
\* C1 to C4 concern the chain of jobs and are read against ProtocolSpec;
\* C5 against LiveSpec; C6 to C10 against Spec.

\* C1: at most one job is being handled at any time (instantiation, engine
\* run, output read), and a job is not started before every job received
\* earlier has posted its terminal message.
C1_OneJobAtATime ==
  /\ Cardinality({i \in DOMAIN queue : Handled(i)}) <= 1
  /\ \A i \in DOMAIN queue :
       queue[i].st # "pending" =>
         \A h \in 1..(i - 1) : TerminalsOf(JobOf(h)) # {}

\* a second request was received while the first job awaits its engine
C1_Witness ==
  /\ Len(queue) = 2
  /\ queue[1].st = "loading"
  /\ queue[2].st = "pending"

\* C2: every compress request gets exactly one terminal message with its
\* jobId once its job has ended and none before; it is a result for a job
\* that completed and an error for a job that threw, never both, never two;
\* no terminal message carries another jobId.
C2_OneTerminal ==
  /\ \A i \in DOMAIN queue :
       LET t == TerminalsOf(JobOf(i))
       IN /\ Cardinality(t) = IF Settled(queue[i].st) THEN 1 ELSE 0
          /\ \A k \in t :
               posted[k].type = IF queue[i].st = "resolved" THEN "result" ELSE "error"
  /\ \A k \in DOMAIN posted :
       IsTerminal(posted[k]) => \E i \in DOMAIN queue : JobOf(i) = posted[k].jobId

\* a job failed while a later request was chained, and got its error
C2_Witness ==
  /\ Len(queue) = 2
  /\ queue[1].st = "caught"
  /\ queue[2].st = "resolved"
  /\ \E k \in TerminalsOf(JobOf(1)) : posted[k].type = "error"
  /\ \E k \in TerminalsOf(JobOf(2)) : posted[k].type = "result"

\* C3: when job A failed (at instantiation, in the engine run or at the
\* output read), the job B received after it can be started as soon as the
\* worker is free, and once B has ended its terminal message is the one of
\* B's own run.
C3_FailureDoesNotBlock ==
  \A i \in DOMAIN queue :
    (i > 1 /\ queue[i - 1].st = "caught") =>
      /\ (queue[i].st = "pending" /\ ~Busy) => ENABLED StartJob(i)
      /\ queue[i].st = "resolved" =>
           \E k \in TerminalsOf(JobOf(i)) : posted[k].type = "result"
      /\ queue[i].st = "caught" =>
           \E k \in TerminalsOf(JobOf(i)) : posted[k].type = "error"

\* A failed in its engine run, B ran afterwards and got a result
C3_Witness ==
  /\ Len(queue) = 2
  /\ queue[1].st = "caught"
  /\ \E k \in TerminalsOf(JobOf(1)) : posted[k].error = "callMain"
  /\ queue[2].st = "resolved"

\* C4: the terminal messages are posted in the order in which the requests
\* were received.
C4_TerminalOrder ==
  LET t == SelectSeq(posted, IsTerminal)
  IN /\ Len(t) <= Len(queue)
     /\ \A k \in DOMAIN t : t[k].jobId = JobOf(k)

\* two jobs ended, the first with an error and the second with a result
C4_Witness ==
  LET t == SelectSeq(posted, IsTerminal)
  IN Len(t) = 2 /\ t[1].type = "error" /\ t[2].type = "result"

\* the versions a document declares
DeclaredVersions(segs) == {segs[i].v : i \in {h \in DOMAIN segs : segs[h].k = "marker"}}

\* C5: under the fairness of LiveSpec every submitted request eventually gets
\* its terminal message; a job that completed has exactly one result, whose
\* pdfVersionUsed is the version the input starts with, or a version the
\* input declares, or "1.5".
C5_EveryJobEnds ==
  /\ \A j \in 1..MaxJobs : (nSubmitted >= j) ~> (TerminalsOf(j) # {})
  /\ [](\A i \in DOMAIN queue :
          queue[i].st = "resolved" =>
            LET t == TerminalsOf(JobOf(i))
                segs == queue[i].msg.pdfBuffer.segs
            IN /\ Cardinality(t) = 1
               /\ \A k \in t :
                    /\ posted[k].type = "result"
                    /\ posted[k].pdfVersionUsed \in
                         DeclaredVersions(segs) \union {"1.5"}
                    /\ segs[1].k = "marker" => posted[k].pdfVersionUsed = segs[1].v
                    /\ DeclaredVersions(segs) = {} => posted[k].pdfVersionUsed = "1.5")

\* two jobs got their results: the first with the version its input starts
\* with, the second, whose marker straddles byte 1024, with the default
C5_Witness ==
  /\ Len(queue) = 2
  /\ \E k \in TerminalsOf(JobOf(1)) :
       posted[k].type = "result" /\ posted[k].pdfVersionUsed = "1.7"
  /\ \E k \in TerminalsOf(JobOf(2)) :
       posted[k].type = "result" /\ posted[k].pdfVersionUsed = "1.5"

\* C6: the result of a job carries the caller's input buffer with
\* usedOriginal = TRUE exactly when /out.pdf is strictly longer than the
\* input, and otherwise (shorter or equally long) the bytes read from
\* /out.pdf with usedOriginal = FALSE.
C6_Fallback ==
  [][\A i \in DOMAIN queue : \A outLen \in OutLengths(InputLength(i)) :
       JobSucceeds(i, outLen) =>
         LET r == posted'[Len(posted')]
         IN /\ r.type = "result"
            /\ r.jobId = JobOf(i)
            /\ r.usedOriginal = (outLen > InputLength(i))
            /\ r.outBuffer = IF outLen > InputLength(i)
                             THEN queue[i].msg.pdfBuffer
                             ELSE EngineOutput(JobOf(i), outLen)]_vars

\* one result kept an output exactly as long as its input, another returned
\* the original
C6_Witness ==
  /\ \E k \in DOMAIN posted :
       /\ posted[k].type = "result"
       /\ ~posted[k].usedOriginal
       /\ posted[k].outBuffer.kind = "engine"
       /\ \E i \in DOMAIN queue :
            /\ JobOf(i) = posted[k].jobId
            /\ ByteLength(posted[k].outBuffer.segs) = InputLength(i)
  /\ \E k \in DOMAIN posted :
       /\ posted[k].type = "result"
       /\ posted[k].usedOriginal
       /\ posted[k].outBuffer.kind = "input"

\* C7: a progress message with percent 100 is immediately followed by the
\* `done` status and the result of the same job and is that job's last
\* progress message, so a job that ends with an error has none; every other
\* progress message has 0 <= percent <= 99.
C7_HundredOnlyAtDone ==
  \A k \in DOMAIN posted :
    IsProgress(posted[k]) =>
      IF posted[k].percent = 100
      THEN /\ k + 2 <= Len(posted)
           /\ posted[k + 1].type = "status"
           /\ posted[k + 1].stage = "done"
           /\ posted[k + 1].jobId = posted[k].jobId
           /\ posted[k + 2].type = "result"
           /\ posted[k + 2].jobId = posted[k].jobId
           /\ \A h \in ProgressOf(posted[k].jobId) : h <= k
           /\ \A h \in TerminalsOf(posted[k].jobId) : posted[h].type = "result"
      ELSE posted[k].percent >= 0 /\ posted[k].percent <= 99

\* a job posted 99 from a log line (raw 100) and later 100 with its result,
\* and another job posted progress from a log line and ended with an error
C7_Witness ==
  /\ \E k \in DOMAIN posted : \E h \in DOMAIN posted :
       /\ k < h
       /\ IsProgress(posted[k]) /\ posted[k].percent = 99
       /\ IsProgress(posted[h]) /\ posted[h].percent = 100
       /\ posted[k].jobId = posted[h].jobId
  /\ \E k \in DOMAIN posted : \E h \in DOMAIN posted :
       /\ k < h
       /\ IsProgress(posted[k]) /\ posted[k].current > 0
       /\ posted[h].type = "error"
       /\ posted[k].jobId = posted[h].jobId

\* C8: whenever no job is inside its engine run the progress state is
\* cleared: activeJobId is null, totalPages is null, currentPage is 0.
C8_ClearedWhenNotRunning ==
  ~Busy => /\ activeJobId = Null
           /\ totalPages = Null
           /\ currentPage = 0

\* a job that had parsed a page number and a page total ended with an error
C8_Witness ==
  /\ ~Busy
  /\ \E i \in DOMAIN queue :
       /\ queue[i].st = "caught"
       /\ \E k \in ProgressOf(JobOf(i)) :
            posted[k].current > 0 /\ posted[k].total # Null

\* the job of link i has reached its running stage
ReachedRunning(i) ==
  \E k \in DOMAIN posted :
    /\ posted[k].type = "status"
    /\ posted[k].stage = "running"
    /\ posted[k].jobId = JobOf(i)

\* C9: the first progress message of every job that reached its running
\* stage is (percent 0, current 0, total null), and as long as such a job has
\* posted no further progress message the progress state holds that job's id,
\* no page total and page 0: nothing of an earlier job is in it.
C9_ProgressIsolation ==
  \A i \in DOMAIN queue :
    ReachedRunning(i) =>
      LET p == ProgressOf(JobOf(i))
      IN /\ p # {}
         /\ LET first == posted[CHOOSE k \in p : \A h \in p : k <= h]
            IN first.percent = 0 /\ first.current = 0 /\ first.total = Null
         /\ (queue[i].st = "running" /\ Cardinality(p) = 1) =>
              /\ activeJobId = JobOf(i)
              /\ totalPages = Null
              /\ currentPage = 0

\* the second job has just started running after a first job that had
\* parsed pages and failed
C9_Witness ==
  /\ Len(queue) = 2
  /\ queue[1].st = "caught"
  /\ \E k \in ProgressOf(JobOf(1)) : posted[k].current = 2 /\ posted[k].total = 2
  /\ queue[2].st = "running"
  /\ Cardinality(ProgressOf(JobOf(2))) = 1

\* the text of the last step is one "Page <n>" line, parsed for an active job
PageLineParsed(print) ==
  /\ print # NoPrint
  /\ print.before.activeJobId # Null
  /\ MatchTotal(print.text) = 0
  /\ MatchPage(print.text) # 0

\* C10: while a job is active currentPage never decreases; a "Page <n>" line
\* changes currentPage only to an n strictly greater than it, and such a line
\* with n <= currentPage changes no progress state and posts nothing.
C10_CurrentPageMonotonic ==
  [][/\ (activeJobId # Null /\ activeJobId' = activeJobId) =>
          currentPage' >= currentPage
     /\ PageLineParsed(lastPrint') =>
          LET n == lastPrint'.text[1].a
          IN /\ lastPrint'.before = progressState
             /\ currentPage' # currentPage =>
                  (n # Infinity /\ n > currentPage /\ currentPage' = n)
             /\ (n # Infinity /\ n <= currentPage) =>
                  /\ currentPage' = currentPage
                  /\ totalPages' = totalPages
                  /\ activeJobId' = activeJobId
                  /\ posted' = posted]_vars

\* "Page 1" was delivered to a job whose currentPage is 2
C10_Witness ==
  /\ lastPrint.text = <<PageLine(1)>>
  /\ lastPrint.before.activeJobId # Null
  /\ lastPrint.before.currentPage = 2
  /\ currentPage = 2

\* ---- the progress inferrer (ParseSpec) ----
\* the progress state of job j right after handleJob has reset it
Fresh(j) == [activeJobId |-> j, totalPages |-> Null, currentPage |-> 0]

\* the last step parsed a "Processing pages a through b." text with b >= a
\* for an active job
RangeParsed(print) ==
  /\ print # NoPrint
  /\ print.before.activeJobId # Null
  /\ MatchTotal(print.text) # 0
  /\ print.text[MatchTotal(print.text)].b >= print.text[MatchTotal(print.text)].a

\* C11 as stated: within one job totalPages, once known, never decreases.
C11_TotalNeverDecreases ==
  [][(activeJobId # Null /\ activeJobId' = activeJobId /\ totalPages # Null) =>
       totalPages' >= totalPages]_vars

\* C11 as amended: within one job totalPages, once known, stays known; a
\* "Page <n>" line never changes it; it changes only by a "Processing pages a
\* through b." line with b >= a, which sets it to b - a + 1, be that more or
\* less than before.
C11_TotalOnlyFromRange ==
  [][(activeJobId # Null /\ activeJobId' = activeJobId /\ totalPages # Null) =>
       /\ totalPages' # Null
       /\ PageLineParsed(lastPrint') => totalPages' = totalPages
       /\ totalPages' # totalPages =>
            /\ RangeParsed(lastPrint')
            /\ LET m == lastPrint'.text[MatchTotal(lastPrint'.text)]
               IN totalPages' = m.b - m.a + 1]_vars

\* "Processing pages 1 through 2." lowered a total of 10 to 2
C11_Witness ==
  /\ lastPrint.text = <<PagesLine(1, 2)>>
  /\ lastPrint.before.totalPages = 10
  /\ totalPages = 2

\* the job of the last print has posted exactly: its initial progress, one
\* progress for the range 3..12, one for the text of the last print
AfterRangeThenLine(text) ==
  /\ lastPrint.text = text
  /\ lastPrint.before = [Fresh(lastPrint.job) EXCEPT !.totalPages = 10]
  /\ Cardinality(ProgressOf(lastPrint.job)) = 3
  /\ posted[Len(posted)].type = "progress"

\* C12 as stated: from a fresh state, "Processing pages 3 through 12." and
\* then "Page 5" give totalPages 10, currentPage 5 and percent 40.
C12_Percent40 ==
  AfterRangeThenLine(<<PageLine(5)>>) =>
    /\ totalPages = 10
    /\ currentPage = 5
    /\ posted[Len(posted)].percent = 40

\* C12 as amended: the same two lines give totalPages 10, currentPage 5 and
\* percent 50.
C12_Percent50 ==
  AfterRangeThenLine(<<PageLine(5)>>) =>
    /\ totalPages = 10
    /\ currentPage = 5
    /\ posted[Len(posted)] = postProgress(lastPrint.job, 50, 5, 10)

\* the two lines were fed to a fresh job
C12_Witness ==
  /\ AfterRangeThenLine(<<PageLine(5)>>)
  /\ currentPage = 5

\* the last step parsed the "Page <n>" line of number n in the fresh state of
\* its job
FirstPageLine(n) ==
  /\ lastPrint.text = <<PageLine(n)>>
  /\ lastPrint.before = Fresh(lastPrint.job)

\* C13: in a fresh state "Page 1" sets currentPage 1 and totalPages 1 and
\* posts percent 99; a first "Page <n>" with n > 1 sets currentPage n, leaves
\* totalPages unknown and posts percent 0.
C13_FirstPage ==
  /\ FirstPageLine(1) =>
       /\ currentPage = 1
       /\ totalPages = 1
       /\ posted[Len(posted)] = postProgress(lastPrint.job, 99, 1, 1)
  /\ \A n \in {2, 5, 29} :
       FirstPageLine(n) =>
         /\ currentPage = n
         /\ totalPages = Null
         /\ posted[Len(posted)] = postProgress(lastPrint.job, 0, n, Null)

\* "Page 1" was the first line of a job
C13_Witness ==
  /\ FirstPageLine(1)
  /\ totalPages = 1

\* C14 as stated: a progress message posted for a log line has percent 0 when
\* totalPages is unknown and min(99, max(0, floor(currentPage * 100 /
\* totalPages))) otherwise, and carries currentPage and totalPages.
C14_PercentFormula ==
  [][(lastPrint' # NoPrint /\ posted' # posted) =>
       LET m == posted'[Len(posted')]
       IN /\ m.type = "progress"
          /\ m.current = currentPage'
          /\ m.total = totalPages'
          /\ m.percent =
               IF totalPages' = Null THEN 0
               ELSE Min(99, Max(0, (currentPage' * 100) \div totalPages'))]_vars

\* ---- the argument list (ArgsSpec) ----
\* gs.callMain was called for link i
Started(i) == queue[i].args # <<>>

\* the positions of the arguments of the given name
ArgsNamed(args, name) == {k \in DOMAIN args : args[k].name = name}

\* the argument list has exactly one argument of that name
TheArg(args, name) == args[CHOOSE k \in ArgsNamed(args, name) : TRUE]

\* C17 as stated: for every options record the last two arguments are
\* -sOutputFile=/out.pdf and then /in.pdf.
C17_OutputThenInputLast ==
  \A i \in DOMAIN queue :
    Started(i) =>
      LET a == queue[i].args
      IN /\ a[Len(a) - 1] = StrArg("-sOutputFile=", OutPath)
         /\ a[Len(a)] = StrArg("", InPath)

\* C17 as amended: the input path /in.pdf is always the last argument and
\* -sOutputFile=/out.pdf occurs once, before it; the two are the last two
\* arguments unless grayscale is true, and with grayscale true the three
\* grayscale arguments stand between them.
C17_InputLast ==
  \A i \in DOMAIN queue :
    Started(i) =>
      LET a == queue[i].args
          n == Len(a)
          outs == ArgsNamed(a, "-sOutputFile=")
      IN /\ a[n] = StrArg("", InPath)
         /\ Cardinality(outs) = 1
         /\ \A k \in outs :
              /\ a[k] = StrArg("-sOutputFile=", OutPath)
              /\ IF queue[i].msg.options.grayscale = "true"
                 THEN /\ k = n - 4
                      /\ SubSeq(a, n - 3, n - 1) =
                           << Flag("-sProcessColorModel=DeviceGray"),
                              Flag("-sColorConversionStrategy=Gray"),
                              Flag("-dOverrideICC") >>
                 ELSE k = n - 1

\* the engine was called with grayscale true
C17_Witness ==
  \E i \in DOMAIN queue :
    /\ Started(i)
    /\ queue[i].msg.options.grayscale = "true"
    /\ queue[i].args[Len(queue[i].args) - 1] = Flag("-dOverrideICC")

\* C18: whatever the options, the job goes on to call the engine; the
\* resolution used is 72 when the option is absent or not finite and
\* max(1, value) otherwise, the threshold used is 1.5 when absent or not
\* finite and max(0.1, value) otherwise (so 1 and 0.1 for values <= 0), and
\* the color, gray and mono image arguments carry the same values.
C18_Normalized ==
  \A i \in DOMAIN queue :
    /\ queue[i].st = "loading" => ENABLED InstantiateOk(i)
    /\ Started(i) =>
         LET a == queue[i].args
             r == queue[i].msg.options.resolutionDpi
             t == queue[i].msg.options.threshold
             res == IF r.k \in {"absent", "nan", "inf"} THEN 720
                    ELSE IF r.v <= 0 THEN 10
                    ELSE IF r.v < 10 THEN 10 ELSE r.v
             thr == IF t.k \in {"absent", "nan", "inf"} THEN 15
                    ELSE IF t.v <= 0 THEN 1
                    ELSE IF t.v < 1 THEN 1 ELSE t.v
         IN /\ \A name \in {"-dColorImageResolution=", "-dGrayImageResolution=",
                            "-dMonoImageResolution="} :
                 /\ Cardinality(ArgsNamed(a, name)) = 1
                 /\ TheArg(a, name).num = res
            /\ \A name \in {"-dColorImageDownsampleThreshold=",
                            "-dGrayImageDownsampleThreshold=",
                            "-dMonoImageDownsampleThreshold="} :
                 /\ Cardinality(ArgsNamed(a, name)) = 1
                 /\ TheArg(a, name).num = thr

\* the engine was called for a resolution of -50 and a threshold of NaN
C18_Witness ==
  \E i \in DOMAIN queue :
    /\ Started(i)
    /\ queue[i].msg.options.resolutionDpi = Num(0 - 500)
    /\ queue[i].msg.options.threshold = NaN
    /\ TheArg(queue[i].args, "-dGrayImageResolution=").num = 10
    /\ TheArg(queue[i].args, "-dMonoImageDownsampleThreshold=").num = 15

\* the version of the first occurrence of the pattern that ends within the
\* first `limit` bytes, scanning the segments from byte `offset`
RECURSIVE FirstMatchWithin(_, _, _)
FirstMatchWithin(segs, offset, limit) ==
  IF segs = <<>> THEN NoMatch
  ELSE IF Head(segs).k = "marker" /\ offset + Head(segs).n <= limit
       THEN Head(segs).v
       ELSE FirstMatchWithin(Tail(segs), offset + Head(segs).n, limit)

\* C19: the version put into -dCompatibilityLevel and into the result's
\* pdfVersionUsed is the first occurrence of %PDF-<digit>.<digit> that lies
\* entirely within the first 1024 bytes of the input, and "1.5" when there
\* is none (absent, beyond byte 1024 or straddling it); sniffing never
\* keeps the job from calling the engine.
C19_VersionUsed ==
  \A i \in DOMAIN queue :
    LET m == FirstMatchWithin(queue[i].msg.pdfBuffer.segs, 0, 1024)
        version == IF m = NoMatch THEN "1.5" ELSE m
    IN /\ queue[i].st = "loading" => ENABLED InstantiateOk(i)
       /\ Started(i) =>
            /\ Cardinality(ArgsNamed(queue[i].args, "-dCompatibilityLevel=")) = 1
            /\ TheArg(queue[i].args, "-dCompatibilityLevel=").str = version
       /\ \A k \in DOMAIN posted :
            (posted[k].type = "result" /\ posted[k].jobId = queue[i].msg.jobId) =>
              posted[k].pdfVersionUsed = version

\* a result for the document whose marker straddles byte 1024
C19_Witness ==
  \E k \in DOMAIN posted :
    /\ posted[k].type = "result"
    /\ queue[posted[k].jobId].msg.pdfBuffer.segs = DocLate
    /\ posted[k].pdfVersionUsed = "1.5"
    /\ TheArg(queue[posted[k].jobId].args, "-dCompatibilityLevel=").str = "1.5"

\* ---- the calls on the shared worker (ClientSpec) ----
\* what a call's caller can observe of it: its promise, its listeners and
\* the last arguments of its callbacks
Observable(c) == <<c.promise, c.listening, c.stage, c.percent>>

\* C15: a message whose jobId is not that of a call neither invokes the
\* call's callbacks nor settles its promise nor removes its listeners; a
\* call changes only when a message with its own jobId is dispatched, its
\* promise is resolved only by a result message and rejected by an error
\* message with its own jobId.
C15_OtherJobsIgnored ==
  [][\A j \in DOMAIN calls :
       Observable(calls'[j]) # Observable(calls[j]) =>
         /\ delivered' = delivered + 1
         /\ posted[delivered + 1].jobId = j
         /\ calls'[j].promise = "resolved" =>
              /\ calls[j].promise = "pending"
              /\ posted[delivered + 1].type = "result"
         /\ calls'[j].promise = "rejected" =>
              /\ calls[j].promise = "pending"
              /\ posted[delivered + 1].type = "error"]_vars

\* two calls in flight: the listener of the second was invoked for messages
\* of the first, which resolved the first and left the second as it was
C15_Witness ==
  /\ Len(calls) >= 2
  /\ calls[1].promise = "resolved"
  /\ calls[2].ignored
  /\ Observable(calls[2]) = Observable(NewCall(FALSE))

\* C20: no buffer is held by the caller and the worker at once; the input
\* buffer of a submitted job is not held by the caller while the job is
\* pending or after it failed; a resolved call holds exactly one buffer of
\* its job, the one of its only result message, which is the input buffer
\* itself when the original was used and the engine's output otherwise, and
\* which the worker no longer holds; a job with an error message has no
\* result message.
C20_Ownership ==
  /\ callerHolds \cap workerHolds = {}
  /\ \A k \in DOMAIN inbox : inbox[k].pdfBuffer \notin callerHolds
  /\ \A k \in DOMAIN posted :
       posted[k].type = "result" => posted[k].outBuffer \notin workerHolds
  /\ \A j \in DOMAIN calls :
       LET mine == {b \in callerHolds : b.job = j}
           results == {k \in DOMAIN posted :
                         posted[k].type = "result" /\ posted[k].jobId = j}
           errors == {k \in DOMAIN posted :
                        posted[k].type = "error" /\ posted[k].jobId = j}
       IN /\ Cardinality(results) <= 1
          /\ errors # {} => results = {}
          /\ calls[j].promise \in {"pending", "rejected"} => mine = {}
          /\ calls[j].promise = "resolved" =>
               \E k \in results :
                 /\ k <= delivered
                 /\ mine = {posted[k].outBuffer}
                 /\ posted[k].outBuffer.job = j
                 /\ posted[k].outBuffer.kind =
                      IF posted[k].usedOriginal THEN "input" ELSE "engine"

\* the first call got its input buffer back, the second one failed
C20_Witness ==
  /\ Len(calls) >= 2
  /\ calls[1].promise = "resolved"
  /\ InputBuffer(1, DocV17) \in callerHolds
  /\ calls[2].promise = "rejected"

\* ---- the page (PageSpec) ----
\* C16: while the status of the file is "compressing" the progress held by
\* the page never decreases, whatever progress messages are delivered.
C16_ProgressMonotonic ==
  [][(ui.status = "compressing" /\ ui'.status = "compressing") =>
       ui'.progress >= ui.progress]_vars

\* the page shows 99 after its onProgress callback was last invoked with 50
C16_Witness ==
  /\ ui.status = "compressing"
  /\ ui.progress = 99
  /\ \E j \in DOMAIN calls :
       calls[j].fromUI /\ calls[j].listening /\ calls[j].percent = 50

\* ---- the messages of the worker (ProtocolSpec) ----
\* C21: the worker posts a lower percent after a higher one of the same job
\* when a "Processing pages" line raises totalPages: after "Page 1" alone
\* (total 1, percent 99) the line "Processing pages 1 through 2." posts
\* percent 50 for the same job; the percent is not clamped to the earlier one.
C21_PercentDrops ==
  (/\ lastPrint.text = <<PagesLine(1, 2)>>
   /\ lastPrint.before = [activeJobId |-> lastPrint.job, totalPages |-> 1,
                          currentPage |-> 1]) =>
    /\ posted[Len(posted)] = postProgress(lastPrint.job, 50, 1, 2)
    /\ \E k \in 1..(Len(posted) - 1) :
         /\ posted[k] = postProgress(lastPrint.job, 99, 1, 1)
         /\ \A l \in (k + 1)..(Len(posted) - 1) : posted[l].type # "progress"

\* the range 1..2 was printed after "Page 1" had given the total 1
C21_Witness ==
  /\ lastPrint.text = <<PagesLine(1, 2)>>
  /\ lastPrint.before.totalPages = 1
  /\ lastPrint.before.currentPage = 1
  /\ totalPages = 2
  /\ posted[Len(posted)].percent = 50

\* C22 as stated: a text of several lines given to print/printErr has the
\* effect of its lines given one after the other, on currentPage and
\* totalPages and on the progress messages posted.
\* (Spec, whose Chunks hold texts of two lines.)
C22_ChunkAsLines ==
  [][(lastPrint' # NoPrint /\ Len(lastPrint'.text) = 2) =>
       LET first == parseGsLine(<<lastPrint'.text[1]>>, progressState)
           second == parseGsLine(<<lastPrint'.text[2]>>, first.s)
       IN /\ progressState' = second.s
          /\ posted' = posted \o first.out \o second.out]_vars

\* the stages of the status messages of a job, in the order posted
StagesOf(jobId) ==
  LET IsStatusOf(m) == m.type = "status" /\ m.jobId = jobId
      st == SelectSeq(posted, IsStatusOf)
  IN [k \in DOMAIN st |-> st[k].stage]

\* the positions in `posted` of the messages of a job of the given type
PositionsOf(jobId, type) ==
  {k \in DOMAIN posted : posted[k].type = type /\ posted[k].jobId = jobId}

\* C23: the status stages of a job are a prefix of loading, ready, running,
\* done (each at most once, none before the earlier ones); ready is posted
\* only after the engine was instantiated; done is posted only for a job
\* with a result, and before the result; a job with an error has no done.
C23_StatusMachine ==
  \A j \in 1..nSubmitted :
    LET st == StagesOf(j)
        done == {k \in PositionsOf(j, "status") : posted[k].stage = "done"}
    IN /\ \E n \in 0..4 :
            st = SubSeq(<<"loading", "ready", "running", "done">>, 1, n)
       /\ Len(st) >= 2 =>
            /\ j \in DOMAIN queue
            /\ queue[j].st \in {"running", "resolved", "caught"}
            /\ \A k \in PositionsOf(j, "error") : posted[k].error # "instantiate"
       /\ \A k \in PositionsOf(j, "error") :
            posted[k].error = "instantiate" => st = <<"loading">>
       /\ \A d \in done :
            \E k \in PositionsOf(j, "result") : d < k
       /\ PositionsOf(j, "error") # {} => done = {}

\* one job went through all four stages, another failed to instantiate
C23_Witness ==
  /\ nSubmitted >= 2
  /\ \E j \in 1..2 :
       /\ StagesOf(j) = <<"loading", "ready", "running", "done">>
       /\ StagesOf(3 - j) = <<"loading">>
       /\ PositionsOf(3 - j, "error") # {}

\* C24: when a job succeeds the worker posts, in this order and after all
\* earlier messages of the job, a progress message with percent 100, total
\* equal to totalPages and current equal to totalPages when it is known and
\* to currentPage otherwise, the status done with a message that tells the
\* fallback from the normal case, and the result; nothing is posted for a
\* job after its result.
C24_FinalProgress ==
  [][/\ \A l \in (Len(posted) + 1)..Len(posted') :
          PositionsOf(posted'[l].jobId, "result") = {}
     /\ (Len(posted') > Len(posted) /\ posted'[Len(posted')].type = "result") =>
          LET n == Len(posted)
              res == posted'[Len(posted')]
          IN /\ Len(posted') = n + 3
             /\ activeJobId = res.jobId
             /\ posted'[n + 1] =
                  postProgress(res.jobId, 100,
                               IF totalPages # Null THEN totalPages
                               ELSE currentPage,
                               totalPages)
             /\ posted'[n + 2].type = "status"
             /\ posted'[n + 2].jobId = res.jobId
             /\ posted'[n + 2].stage = "done"
             /\ posted'[n + 2].message =
                  IF res.usedOriginal THEN "Output larger; returned original."
                  ELSE "Done."
             /\ "Output larger; returned original." # "Done."]_vars

\* a job succeeded at page 1 of 2 with the original returned: its final
\* progress reports 2 of 2 after the log-derived 50
C24_Witness ==
  \E k \in DOMAIN posted :
    /\ k > 1
    /\ k + 2 <= Len(posted)
    /\ posted[k] = postProgress(posted[k].jobId, 100, 2, 2)
    /\ posted[k - 1] = postProgress(posted[k].jobId, 50, 1, 2)
    /\ posted[k + 1].type = "status"
    /\ posted[k + 1].message = "Output larger; returned original."
    /\ posted[k + 2].type = "result"

\* C25: the jobs that started handling have each an engine instance of
\* their own, as many instances as jobs; an instance is invoked by at most
\* one job, once; a job whose instantiation failed has not invoked an engine.
C25_FreshEngine ==
  LET handling == {i \in DOMAIN queue : queue[i].st # "pending"}
  IN /\ \A i \in DOMAIN queue : queue[i].st = "pending" <=> queue[i].gs = 0
     /\ \A i \in handling, k \in handling :
          i # k => queue[i].gs # queue[k].gs
     /\ Cardinality(Instances) = Cardinality(handling)
     /\ \A g \in Instances :
          Cardinality({i \in DOMAIN queue : Started(i) /\ queue[i].gs = g}) <= 1
     /\ \A i \in DOMAIN queue :
          (\E k \in PositionsOf(queue[i].msg.jobId, "error") :
             posted[k].error = "instantiate") => ~Started(i)

\* a job failed to instantiate its engine and a later job has invoked its
\* own
C25_Witness ==
  /\ \E i \in DOMAIN queue :
       /\ queue[i].st = "caught"
       /\ ~Started(i)
       /\ queue[i].gs # 0
  /\ \E i \in DOMAIN queue : i > 1 /\ Started(i)

\* C26: a message is posted with the jobId of the job whose handleJob (or
\* whose catch handler) is executing, also for an error posted while later
\* requests are queued; in `posted` the messages of a job submitted earlier
\* all precede the messages of a job submitted later.
C26_JobIdAndOrder ==
  [][/\ \A l \in (Len(posted) + 1)..Len(posted') :
          \E i \in DOMAIN queue :
            /\ posted'[l].jobId = queue[i].msg.jobId
            /\ \/ queue[i].st \in {"loading", "running"}
               \/ queue[i].st = "pending" /\ queue'[i].st = "loading"
     /\ \A k \in DOMAIN posted', l \in DOMAIN posted' :
          k < l => posted'[k].jobId <= posted'[l].jobId]_vars

\* the first job failed while the request of the second was queued: the
\* error carries the jobId of the first
C26_Witness ==
  /\ Len(queue) >= 2
  /\ queue[1].st = "caught"
  /\ queue[2].st = "pending"
  /\ posted # <<>>
  /\ posted[Len(posted)] = ErrorMessage(1, "callMain")

\* ---- log text outside of a job (IdleSpec) ----
\* C27: a text given to the parser while activeJobId is null (an engine is
\* being instantiated, or the job of the printing engine has ended, before
\* or between later jobs) changes neither currentPage nor totalPages and
\* posts nothing, whatever the text.
C27_IdleLinesIgnored ==
  [][(lastPrint' # NoPrint /\ activeJobId = Null) =>
       /\ lastPrint'.before.activeJobId = Null
       /\ UNCHANGED <<activeJobId, totalPages, currentPage, posted>>]_vars

\* the engine of the first job has printed "Page 1" after its job had ended,
\* while the second job was loading its own
C27_Witness ==
  /\ lastPrint.job = 1
  /\ lastPrint.text = <<PageLine(1)>>
  /\ lastPrint.before.activeJobId = Null
  /\ Len(queue) >= 2
  /\ queue[1].st = "resolved"
  /\ queue[2].st = "loading"
  /\ currentPage = 0
  /\ totalPages = Null

\* ---- error events of the worker (ErrorSpec) ----
\* C28: a promise that has settled stays as it is; a call has its listeners
\* registered exactly while its promise is pending, so the number of
\* registered listener pairs is the number of unsettled calls; once the
\* listeners are removed (by the call's own result or error message or by an
\* error event of the worker) no event invokes the call's callbacks.
C28_SettleOnce ==
  [][\A j \in DOMAIN calls' :
       /\ calls'[j].listening <=> calls'[j].promise = "pending"
       /\ (j \in DOMAIN calls /\ calls[j].promise # "pending") =>
            Observable(calls'[j]) = Observable(calls[j])]_vars

\* the first call was rejected by an error event of the worker before it
\* saw any message, and the messages of its job, up to the result, were
\* dispatched afterwards
C28_Witness ==
  /\ Len(calls) >= 1
  /\ calls[1].promise = "rejected"
  /\ calls[1].stage = ""
  /\ \E k \in 1..delivered : posted[k].type = "result" /\ posted[k].jobId = 1

\* C29: an error event of the worker rejects every call that is unsettled
\* at that moment, whichever job is running, and removes its listeners; it
\* leaves the settled calls as they are; a call made later starts pending
\* with its listeners registered, and apart from error events a call changes
\* only by a message with its own jobId.
C29_ErrorRejectsAll ==
  [][/\ errorEvents' # errorEvents =>
          /\ DOMAIN calls' = DOMAIN calls
          /\ \A j \in DOMAIN calls :
               IF calls[j].promise = "pending"
               THEN calls'[j].promise = "rejected" /\ ~calls'[j].listening
               ELSE calls'[j] = calls[j]
     /\ errorEvents' = errorEvents =>
          /\ \A j \in DOMAIN calls' \ DOMAIN calls :
               Observable(calls'[j]) = Observable(NewCall(FALSE))
          /\ \A j \in DOMAIN calls :
               Observable(calls'[j]) # Observable(calls[j]) =>
                 /\ delivered' = delivered + 1
                 /\ posted[delivered + 1].jobId = j]_vars

\* two calls were rejected by one error event raised while the job of the
\* first was running and the request of the second was queued: the worker
\* has posted no error message
C29_Witness ==
  /\ errorEvents = 1
  /\ Len(calls) >= 2
  /\ Len(queue) >= 2
  /\ queue[1].st = "running"
  /\ queue[2].st = "pending"
  /\ calls[1].promise = "rejected"
  /\ calls[1].stage = "running"
  /\ calls[2].promise = "rejected"
  /\ calls[2].stage = ""
  /\ \A k \in DOMAIN posted : posted[k].type # "error"

====
